---- MODULE Spec2Model ----
(***************************************************************************)
(* Model of incident-helper: the command validator (utils.sanitize_command),*)
(* the execution gateway (SystemResolver.run_command), the session ledger  *)
(* (context.IncidentContext) and the interactive loop of cli.start.        *)
(* Command texts are TLA+ strings; Len, SubSeq and \o act on them as on    *)
(* sequences of one-character strings.                                     *)
(***************************************************************************)
EXTENDS Integers, Sequences, FiniteSets, TLC

\* ------------------------------------------------------------------------
\* Python str primitives used by the validator
\* ------------------------------------------------------------------------

\* s[i] (1-based), a one-character string
CharAt(s, i) == SubSeq(s, i, i)

\* str.isspace for the characters the model feeds in
IsSpace(c) == c \in {" ", "\t", "\n"}

\* `sub in s`
Contains(s, sub) ==
    \E i \in 1..(Len(s) - Len(sub) + 1) : SubSeq(s, i, i + Len(sub) - 1) = sub

\* s.startswith(pre)
StartsWith(s, pre) ==
    /\ Len(pre) <= Len(s)
    /\ SubSeq(s, 1, Len(pre)) = pre

\* s.endswith(suf)
EndsWith(s, suf) ==
    /\ Len(suf) <= Len(s)
    /\ SubSeq(s, Len(s) - Len(suf) + 1, Len(s)) = suf

RECURSIVE lstrip(_)
lstrip(s) ==
    IF Len(s) > 0 /\ IsSpace(CharAt(s, 1)) THEN lstrip(SubSeq(s, 2, Len(s))) ELSE s

RECURSIVE rstrip(_)
rstrip(s) ==
    IF Len(s) > 0 /\ IsSpace(CharAt(s, Len(s))) THEN rstrip(SubSeq(s, 1, Len(s) - 1)) ELSE s

\* str.strip()
strip(s) == rstrip(lstrip(s))

\* length of the run of non-space characters starting at position i
RECURSIVE WordLen(_, _)
WordLen(s, i) ==
    IF i > Len(s) \/ IsSpace(CharAt(s, i)) THEN 0 ELSE 1 + WordLen(s, i + 1)

\* str.split(): the whitespace-delimited words, in order
RECURSIVE split(_)
split(s) ==
    LET t == lstrip(s)
        n == WordLen(t, 1)
    IN  IF Len(t) = 0 THEN << >>
        ELSE <<SubSeq(t, 1, n)>> \o split(SubSeq(t, n + 1, Len(t)))

UpperLetters == "ABCDEFGHIJKLMNOPQRSTUVWXYZ"
LowerLetters == "abcdefghijklmnopqrstuvwxyz"

\* case folding of one character (re.IGNORECASE compares folded characters)
LowerChar(c) ==
    IF \E i \in 1..26 : CharAt(UpperLetters, i) = c
    THEN CharAt(LowerLetters, CHOOSE i \in 1..26 : CharAt(UpperLetters, i) = c)
    ELSE c

RECURSIVE ToLower(_)
ToLower(s) ==
    IF Len(s) = 0 THEN s ELSE LowerChar(CharAt(s, 1)) \o ToLower(SubSeq(s, 2, Len(s)))

\* os.path.basename: the text after the last '/'
RECURSIVE basename(_)
basename(p) ==
    IF Contains(p, "/")
    THEN basename(SubSeq(p, (CHOOSE i \in 1..Len(p) : CharAt(p, i) = "/") + 1, Len(p)))
    ELSE p

\* ------------------------------------------------------------------------
\* Regular expressions of sanitize_command.  A pattern is a sequence of
\* items: Lit(text), WsPlus (\s+), WsStar (\s*) and AnyStar (.*).
\* ------------------------------------------------------------------------
Lit(v) == [t |-> "lit", v |-> v]
WsPlus == [t |-> "ws+", v |-> ""]
WsStar == [t |-> "ws*", v |-> ""]
AnyStar == [t |-> ".*", v |-> ""]

\* items k.. of pattern p match a prefix of s[i..]; s is already case-folded
RECURSIVE MatchFrom(_, _, _, _)
MatchFrom(p, k, s, i) ==
    IF k > Len(p) THEN TRUE
    ELSE LET it == p[k] IN
         CASE it.t = "lit" ->
                /\ i + Len(it.v) - 1 <= Len(s)
                /\ SubSeq(s, i, i + Len(it.v) - 1) = ToLower(it.v)
                /\ MatchFrom(p, k + 1, s, i + Len(it.v))
           [] it.t = "ws+" ->
                \E j \in (i + 1)..(Len(s) + 1) :
                    /\ \A m \in i..(j - 1) : IsSpace(CharAt(s, m))
                    /\ MatchFrom(p, k + 1, s, j)
           [] it.t = "ws*" ->
                \E j \in i..(Len(s) + 1) :
                    /\ \A m \in i..(j - 1) : IsSpace(CharAt(s, m))
                    /\ MatchFrom(p, k + 1, s, j)
           [] it.t = ".*" ->
                \E j \in i..(Len(s) + 1) :
                    /\ \A m \in i..(j - 1) : CharAt(s, m) # "\n"
                    /\ MatchFrom(p, k + 1, s, j)

\* re.search(pattern, s, re.IGNORECASE) is not None
re_search(p, s) ==
    LET folded == ToLower(s) IN \E i \in 1..(Len(s) + 1) : MatchFrom(p, 1, folded, i)

\* ------------------------------------------------------------------------
\* utils.sanitize_command
\* ------------------------------------------------------------------------
\* the backquote character (a string holding it needs the closing quote too)
Backtick == SubSeq("`'", 1, 1)

dangerous_chars == <<";", "&&", "||", "|", ">", ">>", "<", Backtick, "$", "(", ")">>

dangerous_patterns == <<
    <<Lit("rm"), WsPlus, Lit("-rf"), WsStar, Lit("/")>>,
    <<Lit("rm"), WsPlus, Lit("-rf"), WsPlus, Lit("*")>>,
    <<Lit("dd"), WsPlus, Lit("if=")>>,
    <<Lit("mkfs.")>>,
    <<Lit("fdisk")>>,
    <<Lit("format")>>,
    <<Lit(">"), WsStar, Lit("/dev/")>>,
    <<Lit("curl"), AnyStar, Lit("sh")>>,
    <<Lit("wget"), AnyStar, Lit("sh")>>,
    <<Lit("bash"), WsStar, Lit("-c")>>,
    <<Lit("sh"), WsStar, Lit("-c")>>,
    <<Lit("eval"), WsPlus>>,
    <<Lit("exec"), WsPlus>>,
    <<Lit("sudo"), WsPlus, Lit("rm")>>,
    <<Lit("chmod"), WsPlus, Lit("777")>>,
    <<Lit("chown"), WsPlus, AnyStar, Lit(":"), AnyStar, WsPlus, Lit("/")>>,
    <<Lit("://")>>,
    <<Lit("../")>> >>

\* the same patterns as written in the source, used as the rules' names
dangerous_pattern_sources == <<
    "rm\\s+-rf\\s*/", "rm\\s+-rf\\s+\\*", "dd\\s+if=", "mkfs\\.", "fdisk", "format",
    ">\\s*/dev/", "curl.*sh", "wget.*sh", "bash\\s*-c", "sh\\s*-c", "eval\\s+",
    "exec\\s+", "sudo\\s+rm", "chmod\\s+777", "chown\\s+.*:.*\\s+/", "://", "\\.\\./" >>

allowed_commands == {
    "ls", "cat", "tail", "head", "grep", "find", "ps", "top", "htop",
    "df", "du", "free", "uptime", "whoami", "id", "date", "uname",
    "systemctl", "journalctl", "service", "netstat", "ss", "ping",
    "traceroute", "nslookup", "dig", "curl", "wget", "ssh", "scp",
    "awk", "sed", "sort", "uniq", "wc", "which", "whereis",
    "lsof", "iostat", "vmstat", "sar", "tcpdump", "iptables" }

\* the outcome of sanitize_command: the returned string, or the message of
\* the ValueError it raised
Accepted(cmd) == [ok |-> TRUE, value |-> cmd, error |-> ""]
Rejected(msg) == [ok |-> FALSE, value |-> "", error |-> msg]

\* base command taken as the last path component whatever the prefix
base_command_of_any_dir(command) ==
    LET words == split(command)
        first == IF Len(words) > 0 THEN words[1] ELSE ""
    IN  IF Contains(first, "/") THEN basename(first) ELSE first

\* lines 122-129: first word, with a leading "./" or an absolute directory removed
base_command_of(command) ==
    LET words == split(command)
        first == IF Len(words) > 0 THEN words[1] ELSE ""
    IN  IF StartsWith(first, "./") THEN SubSeq(first, 3, Len(first))
        ELSE IF StartsWith(first, "/") THEN basename(first)
        ELSE first

\* sanitize_command without the allowlist test of lines 131-132
sanitize_command_no_allowlist(raw) ==
    IF raw = "" THEN Rejected("Invalid command: must be a non-empty string")
    ELSE
      LET command == strip(raw)
          hitChars == {i \in 1..Len(dangerous_chars) : Contains(command, dangerous_chars[i])}
          firstChar == dangerous_chars[CHOOSE i \in hitChars : \A j \in hitChars : i <= j]
      IN  IF hitChars # {}
          THEN Rejected("Dangerous character '" \o firstChar
                          \o "' detected in command: " \o command)
          ELSE IF \E k \in 1..Len(dangerous_patterns) : re_search(dangerous_patterns[k], command)
          THEN Rejected("Potentially dangerous command pattern detected: " \o command)
          ELSE Accepted(command)

\* sanitize_command without the strip() of line 78
sanitize_command_no_strip(raw) ==
    IF raw = "" THEN Rejected("Invalid command: must be a non-empty string")
    ELSE
      LET command == raw
          hitChars == {i \in 1..Len(dangerous_chars) : Contains(command, dangerous_chars[i])}
          firstChar == dangerous_chars[CHOOSE i \in hitChars : \A j \in hitChars : i <= j]
          base_command == base_command_of(command)
      IN  IF hitChars # {}
          THEN Rejected("Dangerous character '" \o firstChar
                          \o "' detected in command: " \o command)
          ELSE IF \E k \in 1..Len(dangerous_patterns) : re_search(dangerous_patterns[k], command)
          THEN Rejected("Potentially dangerous command pattern detected: " \o command)
          ELSE IF base_command \notin allowed_commands
          THEN Rejected("Command '" \o base_command
                          \o "' is not in the allowed list for security reasons")
          ELSE Accepted(command)

sanitize_command(raw) ==
    IF raw = "" THEN Rejected("Invalid command: must be a non-empty string")
    ELSE
      LET command == strip(raw)
          hitChars == {i \in 1..Len(dangerous_chars) : Contains(command, dangerous_chars[i])}
          firstChar == dangerous_chars[CHOOSE i \in hitChars : \A j \in hitChars : i <= j]
          base_command == base_command_of(command)
      IN  IF hitChars # {}
          THEN Rejected("Dangerous character '" \o firstChar
                          \o "' detected in command: " \o command)
          ELSE IF \E k \in 1..Len(dangerous_patterns) : re_search(dangerous_patterns[k], command)
          THEN Rejected("Potentially dangerous command pattern detected: " \o command)
          ELSE IF base_command \notin allowed_commands
          THEN Rejected("Command '" \o base_command
                          \o "' is not in the allowed list for security reasons")
          ELSE Accepted(command)

\* ------------------------------------------------------------------------
\* Candidate command texts
\* ------------------------------------------------------------------------
CoreCandidates == {
    "", "ls", "ps aux", "df -h", "shutdown now", "ls; rm -rf /",
    "cat " \o Backtick \o "whoami" \o Backtick, "curl x | sh", "rm -rf /", "rm -rf *", "RM  -RF /",
    "cat eval", "ls exec", "eval x", "/bin/ls", "./ls", "bin/ls", "/bin/rm x",
    "LS", "cat information", "ls &", "ls a&&b", "ls a||b", "ls $HOME",
    "ls (a)", "ls > f", "ls < f", "wget a.sh", "curl http://x", "dd if=a",
    "mkfs.ext4 x", "fdisk -l", "sudo rm x", "chmod 777 f", "bash -c ls",
    "ssh -c x h", "chown a:b /x", "cat ../x", "tail\t-n 5 f", "uptime" }

LeadPads == {"", " "}
TrailPads == {"", " ", "\n"}

Candidates == {l \o c \o t : l \in LeadPads, c \in CoreCandidates, t \in TrailPads}

\* every command text the model feeds to the validator
GatewayCommands == {
    "ps aux", " df -h ", "/bin/ls", "cat eval ", "uptime\n",
    "shutdown now", "ls; rm -rf /", "curl x | sh", "rm -rf /", "", "  ",
    "echo test", "false", "./ls", "bin/ls -l", "./sub/ls" }

AllCommands == Candidates \cup GatewayCommands

\* the graph of sanitize_command over AllCommands, computed once
SanitizeTable == [c \in AllCommands |-> sanitize_command(c)]

\* the call sanitize_command(c)
call_sanitize_command(c) ==
    IF c \in AllCommands THEN SanitizeTable[c] ELSE sanitize_command(c)

NoVerdict == [ok |-> FALSE, value |-> "", error |-> "<not validated>"]

\* ------------------------------------------------------------------------
\* Python values held by the ledger, and json.dumps
\* ------------------------------------------------------------------------
PyStr(s) == [py |-> "str", v |-> s]
PyDict(pairs) == [py |-> "dict", v |-> pairs]
PyEmptyList == [py |-> "list", v |-> << >>]

\* a JSON document: a tagged tree; an object is the ordered list of its members
JStr(s) == [j |-> "string", v |-> s]
JNum(n) == [j |-> "number", v |-> n]
JBool(b) == [j |-> "bool", v |-> b]
JArr(items) == [j |-> "array", v |-> items]
JObj(members) == [j |-> "object", v |-> members]

\* str(value), as the f-strings of context.py format a context value
RECURSIVE py_repr_pairs(_)
py_repr_pairs(pairs) ==
    IF Len(pairs) = 0 THEN ""
    ELSE "'" \o pairs[1][1] \o "': '" \o pairs[1][2] \o "'"
         \o (IF Len(pairs) > 1 THEN ", " ELSE "") \o py_repr_pairs(Tail(pairs))

py_str(val) ==
    CASE val.py = "str" -> val.v
      [] val.py = "list" -> "[]"
      [] val.py = "dict" -> "{" \o py_repr_pairs(val.v) \o "}"

\* json.dumps of one context value (a str, the empty list, a flat dict of str)
json_value(val) ==
    CASE val.py = "str" -> JStr(val.v)
      [] val.py = "list" -> JArr(<< >>)
      [] val.py = "dict" -> JObj([i \in 1..Len(val.v) |-> <<val.v[i][1], JStr(val.v[i][2])>>])

\* datetime.isoformat() of the model's clock reading t
isoformat(t) == "T" \o ToString(t)

\* str(timedelta) of now - start_time
duration_str(t, start) == ToString(t - start) \o "s"

\* ------------------------------------------------------------------------
\* context.IncidentContext.  The object is a record; a Python dict that keeps
\* insertion order is a sequence of [key, value] entries with distinct keys.
\* ------------------------------------------------------------------------
Severities == {"low", "medium", "high", "critical"}
Statuses == {"investigating", "identified", "monitoring", "resolved"}
NoSeverity == "None"

HasKey(d, k) == \E i \in 1..Len(d) : d[i].key = k

\* d[k] = v
DictSet(d, k, v) ==
    IF HasKey(d, k)
    THEN [i \in 1..Len(d) |-> IF d[i].key = k THEN [key |-> k, value |-> v] ELSE d[i]]
    ELSE Append(d, [key |-> k, value |-> v])

\* d.get(k, default)
DictGet(d, k, default) ==
    IF HasKey(d, k) THEN d[CHOOSE i \in 1..Len(d) : d[i].key = k].value ELSE default

\* IncidentContext.__init__ at clock reading t
NewContext(t) ==
    [ data |-> << >>,
      commands_executed |-> << >>,
      timeline |-> << >>,
      severity |-> NoSeverity,
      status |-> "investigating",
      start_time |-> t ]

\* _add_timeline_entry inserting at the front instead of appending
_add_timeline_entry_front(c, entry, t) ==
    [c EXCEPT !.timeline = <<[timestamp |-> isoformat(t), entry |-> entry]>> \o @]

_add_timeline_entry(c, entry, t) ==
    [c EXCEPT !.timeline = Append(@, [timestamp |-> isoformat(t), entry |-> entry])]

\* set without its timeline entry
set_silent(c, key, value, t) == [c EXCEPT !.data = DictSet(@, key, value)]

set(c, key, value, t) ==
    _add_timeline_entry([c EXCEPT !.data = DictSet(@, key, value)],
                        "Set " \o key \o ": " \o py_str(value), t)

get(c, key, default) == DictGet(c.data, key, default)

\* set, add_command and set_status when a KeyboardInterrupt is raised after
\* their first statement (on entry to the _add_timeline_entry call that follows)
set_interrupted(c, key, value, t) == [c EXCEPT !.data = DictSet(@, key, value)]

add_command_interrupted(c, command, output, success, t) ==
    [c EXCEPT !.commands_executed =
        Append(@, [command |-> command, output |-> output,
                   success |-> success, timestamp |-> isoformat(t)])]

set_status_interrupted(c, st, t) == [c EXCEPT !.status = st]

add_command(c, command, output, success, t) ==
    _add_timeline_entry(
        [c EXCEPT !.commands_executed =
            Append(@, [command |-> command, output |-> output,
                       success |-> success, timestamp |-> isoformat(t)])],
        "Executed: " \o command, t)

set_severity(c, sev, t) ==
    _add_timeline_entry([c EXCEPT !.severity = sev], "Severity set to: " \o sev, t)

set_status(c, st, t) ==
    _add_timeline_entry([c EXCEPT !.status = st], "Status changed to: " \o st, t)

\* get_summary counting elapsed clock ticks into commands_run
get_summary_elapsed_count(c, t) ==
    [ alert |-> get(c, "alert", PyStr("Unknown incident")),
      severity |-> IF c.severity # NoSeverity THEN c.severity ELSE "unknown",
      status |-> c.status,
      duration |-> duration_str(t, c.start_time),
      commands_run |-> Len(c.commands_executed) + (t - c.start_time),
      os |-> get(c, "os", PyStr("unknown")),
      environment |-> get(c, "environment", PyStr("unknown")),
      affected_services |-> get(c, "affected_services", PyEmptyList) ]

get_summary(c, t) ==
    [ alert |-> get(c, "alert", PyStr("Unknown incident")),
      severity |-> IF c.severity # NoSeverity THEN c.severity ELSE "unknown",
      status |-> c.status,
      duration |-> duration_str(t, c.start_time),
      commands_run |-> Len(c.commands_executed),
      os |-> get(c, "os", PyStr("unknown")),
      environment |-> get(c, "environment", PyStr("unknown")),
      affected_services |-> get(c, "affected_services", PyEmptyList) ]

\* json.dumps of the dicts the report is made of
json_summary(s) ==
    JObj(<< <<"alert", json_value(s.alert)>>,
            <<"severity", JStr(s.severity)>>,
            <<"status", JStr(s.status)>>,
            <<"duration", JStr(s.duration)>>,
            <<"commands_run", JNum(s.commands_run)>>,
            <<"os", json_value(s.os)>>,
            <<"environment", json_value(s.environment)>>,
            <<"affected_services", json_value(s.affected_services)>> >>)

json_timeline_entry(e) ==
    JObj(<< <<"timestamp", JStr(e.timestamp)>>, <<"entry", JStr(e.entry)>> >>)

json_command_entry(e) ==
    JObj(<< <<"command", JStr(e.command)>>, <<"output", JStr(e.output)>>,
            <<"success", JBool(e.success)>>, <<"timestamp", JStr(e.timestamp)>> >>)

json_data(d) == JObj([i \in 1..Len(d) |-> <<d[i].key, json_value(d[i].value)>>])

\* export_report leaving failed commands and their timeline entries out
export_report_filtered(c, t) ==
    LET ok_cmds == SelectSeq(c.commands_executed, LAMBDA e : e.success)
        failed == {"Executed: " \o c.commands_executed[i].command :
                      i \in {k \in 1..Len(c.commands_executed) : ~c.commands_executed[k].success}}
        kept == SelectSeq(c.timeline, LAMBDA e : e.entry \notin failed)
    IN  JObj(<< <<"incident_summary", json_summary(get_summary(c, t))>>,
                <<"timeline", JArr([i \in 1..Len(kept) |-> json_timeline_entry(kept[i])])>>,
                <<"commands_executed",
                  JArr([i \in 1..Len(ok_cmds) |-> json_command_entry(ok_cmds[i])])>>,
                <<"context_data", json_data(c.data)>> >>)

export_report(c, t) ==
    JObj(<< <<"incident_summary", json_summary(get_summary(c, t))>>,
            <<"timeline", JArr([i \in 1..Len(c.timeline) |-> json_timeline_entry(c.timeline[i])])>>,
            <<"commands_executed",
              JArr([i \in 1..Len(c.commands_executed) |-> json_command_entry(c.commands_executed[i])])>>,
            <<"context_data", json_data(c.data)>> >>)

\* ------------------------------------------------------------------------
\* resolvers.system.SystemResolver.run_command
\* ------------------------------------------------------------------------
DefaultTimeout == 30

\* what subprocess.run does once called: the child exits, the timeout expires
\* first, or the spawn itself raises (e.g. the executable is missing)
Exited(rc, out, err) ==
    [kind |-> "exit", returncode |-> rc, stdout |-> out, stderr |-> err]
TimeoutExpired == [kind |-> "timeout", returncode |-> 0, stdout |-> "", stderr |-> ""]
SpawnError == [kind |-> "oserror", returncode |-> 0, stdout |-> "", stderr |-> ""]

NoOutcome == [kind |-> "none", returncode |-> 0, stdout |-> "", stderr |-> ""]

ProcOutcomes ==
    {Exited(rc, out, err) : rc \in {0, 1}, out \in {"", "out"}, err \in {"", "err"}}
        \cup {TimeoutExpired, SpawnError}

\* one call of subprocess.run as the spy sees it
SpawnCall(argv, timeout) ==
    [argv |-> argv, capture_output |-> TRUE, text |-> TRUE, timeout |-> timeout, shell |-> FALSE]

\* run_command spawning whatever it was given, validated or not
run_command_unchecked(command, timeout, env) ==
    LET argv == split(command) IN
    [result |->
        CASE env.kind = "exit" ->
               [command |-> command, returncode |-> env.returncode,
                stdout |-> env.stdout, stderr |-> env.stderr,
                success |-> (env.returncode = 0)]
          [] env.kind = "timeout" ->
               [command |-> command, error |-> "Command timed out", success |-> FALSE]
          [] env.kind = "oserror" ->
               [command |-> command, error |-> "[Errno 2] No such file or directory", success |-> FALSE],
     spawn |-> <<SpawnCall(argv, timeout)>>]

\* run_command reporting success whenever the child exited
run_command_always_success(command, timeout, env) ==
    LET v == call_sanitize_command(command) IN
    IF ~v.ok
    THEN [result |-> [command |-> command, error |-> v.error, success |-> FALSE],
          spawn |-> << >>]
    ELSE LET argv == split(v.value) IN
         [result |->
            CASE env.kind = "exit" ->
                   [command |-> command, returncode |-> env.returncode,
                    stdout |-> env.stdout, stderr |-> env.stderr,
                    success |-> TRUE]
              [] env.kind = "timeout" ->
                   [command |-> command, error |-> "Command timed out", success |-> FALSE]
              [] env.kind = "oserror" ->
                   [command |-> command,
                    error |-> "[Errno 2] No such file or directory: '" \o argv[1] \o "'",
                    success |-> FALSE],
          spawn |-> <<SpawnCall(argv, timeout)>>]

\* run_command without the handler of lines 91-96: a spawn error propagates
run_command_spawn_error_raises(command, timeout, env) ==
    LET v == call_sanitize_command(command) IN
    IF ~v.ok
    THEN [result |-> [command |-> command, error |-> v.error, success |-> FALSE],
          spawn |-> << >>]
    ELSE LET argv == split(v.value) IN
         [result |->
            CASE env.kind = "exit" ->
                   [command |-> command, returncode |-> env.returncode,
                    stdout |-> env.stdout, stderr |-> env.stderr,
                    success |-> (env.returncode = 0)]
              [] env.kind = "timeout" ->
                   [command |-> command, error |-> "Command timed out", success |-> FALSE]
              [] env.kind = "oserror" ->
                   [raised |-> "FileNotFoundError"],
          spawn |-> <<SpawnCall(argv, timeout)>>]

\* run_command handing the accepted text to a shell as one string
run_command_via_shell(command, timeout, env) ==
    LET v == call_sanitize_command(command) IN
    IF ~v.ok
    THEN [result |-> [command |-> command, error |-> v.error, success |-> FALSE],
          spawn |-> << >>]
    ELSE [result |->
            CASE env.kind = "exit" ->
                   [command |-> command, returncode |-> env.returncode,
                    stdout |-> env.stdout, stderr |-> env.stderr,
                    success |-> (env.returncode = 0)]
              [] env.kind = "timeout" ->
                   [command |-> command, error |-> "Command timed out", success |-> FALSE]
              [] env.kind = "oserror" ->
                   [command |-> command,
                    error |-> "[Errno 2] No such file or directory", success |-> FALSE],
          spawn |-> <<[argv |-> <<v.value>>, capture_output |-> TRUE, text |-> TRUE,
                       timeout |-> timeout, shell |-> TRUE]>>]

\* run_command letting TimeoutExpired count as a normal, empty completion
run_command_timeout_ok(command, timeout, env) ==
    LET v == call_sanitize_command(command) IN
    IF ~v.ok
    THEN [result |-> [command |-> command, error |-> v.error, success |-> FALSE],
          spawn |-> << >>]
    ELSE LET argv == split(v.value) IN
         [result |->
            CASE env.kind = "exit" ->
                   [command |-> command, returncode |-> env.returncode,
                    stdout |-> env.stdout, stderr |-> env.stderr,
                    success |-> (env.returncode = 0)]
              [] env.kind = "timeout" ->
                   [command |-> command, returncode |-> 0,
                    stdout |-> "", stderr |-> "", success |-> TRUE]
              [] env.kind = "oserror" ->
                   [command |-> command,
                    error |-> "[Errno 2] No such file or directory: '" \o argv[1] \o "'",
                    success |-> FALSE],
          spawn |-> <<SpawnCall(argv, timeout)>>]

\* run_command(command, timeout) when the environment answers env to a spawn:
\* the returned dict and the subprocess.run calls made
run_command(command, timeout, env) ==
    LET v == call_sanitize_command(command) IN
    IF ~v.ok
    THEN [result |-> [command |-> command, error |-> v.error, success |-> FALSE],
          spawn |-> << >>]
    ELSE LET argv == split(v.value) IN
         [result |->
            CASE env.kind = "exit" ->
                   [command |-> command, returncode |-> env.returncode,
                    stdout |-> env.stdout, stderr |-> env.stderr,
                    success |-> (env.returncode = 0)]
              [] env.kind = "timeout" ->
                   [command |-> command, error |-> "Command timed out", success |-> FALSE]
              [] env.kind = "oserror" ->
                   [command |-> command,
                    error |-> "[Errno 2] No such file or directory: '" \o argv[1] \o "'",
                    success |-> FALSE],
          spawn |-> <<SpawnCall(argv, timeout)>>]

\* dict.get(key, default) on a returned dict
result_get(d, key, default) == IF key \in DOMAIN d THEN d[key] ELSE default

\* ------------------------------------------------------------------------
\* Bounds and input sets
\* ------------------------------------------------------------------------
MaxClock == 1
MaxInterrupts == 1
MaxInterruptEntries == 5
MaxCalls == 3
MaxRuns == 2

Keys == {"a", "alert"}
Values == {PyStr("1"), PyStr("db down")}

CommandInputs == {
    [command |-> "ls", output |-> "", success |-> TRUE],
    [command |-> "df -h", output |-> "out", success |-> TRUE],
    [command |-> "rm -rf /", output |-> "", success |-> FALSE] }

SeverityInputs == {"high", "low"}
StatusInputs == {"identified", "resolved"}

\* str.split('\n')
RECURSIVE split_lines(_)
split_lines(text) ==
    IF Contains(text, "\n")
    THEN LET i == CHOOSE k \in 1..Len(text) :
                    CharAt(text, k) = "\n" /\ \A m \in 1..(k - 1) : CharAt(text, m) # "\n"
         IN  <<SubSeq(text, 1, i - 1)>> \o split_lines(SubSeq(text, i + 1, Len(text)))
    ELSE <<text>>

\* ------------------------------------------------------------------------
\* utils.validate_file_path and LogResolver.tail_log
\* ------------------------------------------------------------------------
\* path.split('/') without the empty and "." components
RECURSIVE path_segments(_)
path_segments(p) ==
    IF p = "" THEN << >>
    ELSE IF Contains(p, "/")
    THEN LET i == CHOOSE k \in 1..Len(p) :
                    CharAt(p, k) = "/" /\ \A m \in 1..(k - 1) : CharAt(p, m) # "/"
             seg == SubSeq(p, 1, i - 1)
             rest == path_segments(SubSeq(p, i + 1, Len(p)))
         IN  IF seg \in {"", "."} THEN rest ELSE <<seg>> \o rest
    ELSE IF p = "." THEN << >> ELSE <<p>>

\* os.path.dirname of a normalised absolute path
RECURSIVE dirname(_)
dirname(p) ==
    IF p = "" THEN ""
    ELSE IF CharAt(p, Len(p)) = "/" THEN SubSeq(p, 1, Len(p) - 1)
    ELSE dirname(SubSeq(p, 1, Len(p) - 1))

\* the file system the process sees: working directory, symbolic links
\* (absolute targets), what each path is, and what the process may read
FileKind(fs, p) == IF p \in DOMAIN fs.kinds THEN fs.kinds[p] ELSE "missing"
exists(fs, p) == FileKind(fs, p) # "missing"
isfile(fs, p) == FileKind(fs, p) = "file"
access_R_OK(fs, p) == exists(fs, p) /\ p \in fs.readable

\* os.path.realpath: done is the resolved prefix, rest the components left
RECURSIVE resolve_components(_, _, _)
resolve_components(fs, done, rest) ==
    IF rest = << >> THEN (IF done = "" THEN "/" ELSE done)
    ELSE IF Head(rest) = ".."
    THEN resolve_components(fs, dirname(done), Tail(rest))
    ELSE LET next == done \o "/" \o Head(rest) IN
         IF next \in DOMAIN fs.links
         THEN resolve_components(fs, "", path_segments(fs.links[next]) \o Tail(rest))
         ELSE resolve_components(fs, next, Tail(rest))

realpath(fs, path) ==
    resolve_components(fs, "",
        path_segments(IF StartsWith(path, "/") THEN path ELSE fs.cwd \o "/" \o path))

\* allowed_dirs: None stands for the default list
NoDirs == << >>
default_allowed_dirs(fs) == <<"/var/log/", "/tmp/", "/opt/", fs.cwd>>

PathAccepted(resolved) == [ok |-> TRUE, value |-> resolved, error |-> "", resolved |-> TRUE]
PathRejected(msg, was_resolved) ==
    [ok |-> FALSE, value |-> "", error |-> msg, resolved |-> was_resolved]

\* validate_file_path without the '..' test
validate_file_path_resolve_only(fs, path, allowed_dirs) ==
    IF path = "" THEN PathRejected("Invalid path: must be a non-empty string", FALSE)
    ELSE LET dirs == IF allowed_dirs = NoDirs THEN default_allowed_dirs(fs) ELSE allowed_dirs
             resolved_path == realpath(fs, path)
         IN  IF ~\E k \in 1..Len(dirs) : StartsWith(resolved_path, dirs[k])
             THEN PathRejected("Path not in allowed directories: " \o resolved_path, TRUE)
             ELSE PathAccepted(resolved_path)

\* validate_file_path(path, allowed_dirs): the path returned or the
\* ValueError raised, and whether os.path.realpath was called
validate_file_path(fs, path, allowed_dirs) ==
    IF path = "" THEN PathRejected("Invalid path: must be a non-empty string", FALSE)
    ELSE LET dirs == IF allowed_dirs = NoDirs THEN default_allowed_dirs(fs) ELSE allowed_dirs IN
         IF Contains(path, "..")
         THEN PathRejected("Path traversal detected: '..' not allowed", FALSE)
         ELSE LET resolved_path == realpath(fs, path) IN
              IF ~\E k \in 1..Len(dirs) : StartsWith(resolved_path, dirs[k])
              THEN PathRejected("Path not in allowed directories: " \o resolved_path, TRUE)
              ELSE PathAccepted(resolved_path)

TailTimeout == 10
tail_log_dirs == <<"/var/log/", "/tmp/", "/opt/">>

\* tail_log(log_path, lines) when the environment answers env to the spawn:
\* the returned dict and the subprocess.run calls made
tail_log(fs, log_path, lines, env) ==
    LET v == validate_file_path(fs, log_path, tail_log_dirs) IN
    IF ~v.ok
    THEN [result |-> [error |-> "Invalid log path: " \o v.error], spawn |-> << >>]
    ELSE LET validated_path == v.value
             argv == <<"tail", "-n", ToString(lines), validated_path>>
         IN
         IF ~exists(fs, validated_path)
         THEN [result |-> [error |-> "Log file not found: " \o validated_path], spawn |-> << >>]
         ELSE IF ~access_R_OK(fs, validated_path)
         THEN [result |-> [error |-> "Cannot read log file: " \o validated_path], spawn |-> << >>]
         ELSE [result |->
                 CASE env.kind = "exit" ->
                        [path |-> validated_path,
                         lines |-> split_lines(env.stdout),
                         line_count |-> Len(split_lines(env.stdout)),
                         success |-> (env.returncode = 0)]
                   [] env.kind = "timeout" ->
                        [error |-> "Failed to tail log: Command '['tail', '-n', '"
                                      \o ToString(lines) \o "', '" \o validated_path
                                      \o "']' timed out after 10 seconds",
                         path |-> log_path]
                   [] env.kind = "oserror" ->
                        [error |-> "Failed to tail log: [Errno 2] No such file or directory: 'tail'",
                         path |-> log_path],
               spawn |-> <<SpawnCall(argv, TailTimeout)>>]

\* the file systems and paths the model offers
BaseKinds ==
    [p \in {"/var/log/syslog", "/var/log/secure", "/var/log/nginx", "/var/log", "/tmp",
            "/etc/passwd", "/home/op", "/home/op/notes.txt", "/home/op2/secret",
            "/tmp/app.log"} |->
        IF p \in {"/var/log/nginx", "/var/log", "/tmp", "/home/op"} THEN "dir" ELSE "file"]

BaseLinks ==
    [p \in {"/tmp/link", "/tmp/loglink"} |->
        IF p = "/tmp/link" THEN "/etc/passwd" ELSE "/var/log/syslog"]

FileSystems ==
    {[cwd |-> cwd, links |-> BaseLinks, kinds |-> BaseKinds,
      readable |-> DOMAIN BaseKinds \ unreadable] :
        cwd \in {"/home/op", "/tmp"},
        unreadable \in {{"/var/log/secure"}, {"/var/log/secure", "/var/log/syslog"}}}

DefaultFileSystem ==
    [cwd |-> "/home/op", links |-> BaseLinks, kinds |-> BaseKinds,
     readable |-> DOMAIN BaseKinds \ {"/var/log/secure"}]

PathCandidates == {
    "", "/var/log/syslog", "/var/log/./syslog", "/var/log/secure", "/var/log/nginx",
    "/var/log/missing.log", "/var/log", "/var/log/../../etc/passwd",
    "/var/log/../log/syslog", "../op2/secret", "/tmp/app..log", "/tmp/link",
    "/tmp/loglink", "/tmp/app.log", "/etc/passwd", "/home/op/notes.txt", "notes.txt",
    "/home/op2/secret" }

AllowedDirsInputs == {NoDirs, tail_log_dirs, <<"/var/log/">>, <<"/var/log">>}

TailOutcomes == {Exited(0, "l1\nl2", ""), Exited(1, "", "err"), TimeoutExpired, SpawnError}

NoPathCall == [op |-> "none"]

\* ------------------------------------------------------------------------
\* State
\* ------------------------------------------------------------------------
NoReturn == [op |-> "none"]

\* the Confirm.ask(f"Execute: {cmd}?") a step answered, with its yes/no
NoPrompt == [kind |-> "none", text |-> "", answer |-> FALSE]
Confirmed(cmd, yes) == [kind |-> "confirm", text |-> cmd, answer |-> yes]

VARIABLES
    candidate,   \* the text handed to sanitize_command
    verdict,     \* what sanitize_command answered (NoVerdict before the call)
    ctx,         \* the IncidentContext object
    clock,       \* what datetime.now() reads
    ret,         \* the value returned by the last ledger call
    calls,       \* number of set/add_command/set_severity/set_status calls made
    runs,        \* one entry per run_command call: its argument, the dict it
                 \* returned, the subprocess.run calls it made and what the
                 \* spawned process did
    pc,          \* where cli.start stands: "start", "ai", "confirm", "input", "ended"
    auto_execute,\* the --auto-execute option
    pending,     \* suggested commands the confirm loop has not reached yet
    files,       \* report files written, a dict filename -> content
    attempts,    \* the commands handed to _execute_command, in order
    console,     \* what _execute_command printed, one sequence of lines per attempt
    asked,       \* the Confirm.ask on a suggested command that the last step of
                 \* the loop answered, with the answer; NoPrompt after other steps
    interrupts,  \* how many KeyboardInterrupts the loop of start has caught
    fsys,        \* the file system validate_file_path and tail_log look at
    path_call    \* the validate_file_path / tail_log call made and what it
                 \* returned (NoPathCall before the call)

vars == <<candidate, verdict, ctx, clock, ret, calls, runs,
          pc, auto_execute, pending, files, attempts, console, asked,
          interrupts, fsys, path_call>>

sessionVars == <<pc, auto_execute, pending, files, attempts, console, asked,
                 interrupts>>
pathVars == <<fsys, path_call>>

InitPathVars ==
    /\ fsys = DefaultFileSystem
    /\ path_call = NoPathCall

InitSessionVars ==
    /\ pc = "start"
    /\ auto_execute = FALSE
    /\ pending = << >>
    /\ files = << >>
    /\ attempts = << >>
    /\ console = << >>
    /\ asked = NoPrompt
    /\ interrupts = 0

sanitizeVars == <<candidate, verdict>>
ledgerVars == <<ctx, clock, ret, calls>>

InitLedger ==
    /\ clock = 0
    /\ ctx = NewContext(0)
    /\ ret = NoReturn
    /\ calls = 0

\* ------------------------------------------------------------------------
\* Validator alone: one candidate, one call
\* ------------------------------------------------------------------------
InitSanitize ==
    /\ candidate \in Candidates
    /\ verdict = NoVerdict
    /\ InitLedger
    /\ runs = << >>
    /\ InitSessionVars
    /\ InitPathVars

Sanitize ==
    /\ verdict = NoVerdict
    /\ verdict' = call_sanitize_command(candidate)
    /\ UNCHANGED <<candidate, ledgerVars, runs, sessionVars, pathVars>>

NextSanitize == Sanitize

SpecSanitize == InitSanitize /\ [][NextSanitize]_vars

\* ------------------------------------------------------------------------
\* Path validation alone: one file system, one call
\* ------------------------------------------------------------------------
InitPaths ==
    /\ candidate = ""
    /\ verdict = NoVerdict
    /\ InitLedger
    /\ runs = << >>
    /\ InitSessionVars
    /\ fsys \in FileSystems
    /\ path_call = NoPathCall

ValidateFilePath(path, allowed_dirs) ==
    /\ path_call = NoPathCall
    /\ path_call' = [op |-> "validate_file_path", path |-> path, allowed_dirs |-> allowed_dirs,
                     verdict |-> validate_file_path(fsys, path, allowed_dirs)]
    /\ UNCHANGED <<sanitizeVars, ledgerVars, runs, sessionVars, fsys>>

TailLog(log_path, env) ==
    /\ path_call = NoPathCall
    /\ LET r == tail_log(fsys, log_path, 50, env)
       IN  path_call' = [op |-> "tail_log", path |-> log_path, result |-> r.result,
                         spawn |-> r.spawn,
                         outcome |-> IF r.spawn # << >> THEN env ELSE NoOutcome]
    /\ UNCHANGED <<sanitizeVars, ledgerVars, runs, sessionVars, fsys>>

NextPaths ==
    \/ \E path \in PathCandidates, allowed_dirs \in AllowedDirsInputs :
            ValidateFilePath(path, allowed_dirs)
    \/ \E log_path \in PathCandidates, env \in TailOutcomes : TailLog(log_path, env)

SpecPaths == InitPaths /\ [][NextPaths]_vars

\* ------------------------------------------------------------------------
\* Gateway alone: run_command called with any command, any process outcome
\* ------------------------------------------------------------------------
InitGateway ==
    /\ candidate = ""
    /\ verdict = NoVerdict
    /\ InitLedger
    /\ runs = << >>
    /\ InitSessionVars
    /\ InitPathVars

RunCommand(command, env) ==
    /\ Len(runs) < MaxRuns
    /\ LET r == run_command(command, DefaultTimeout, env)
       IN  runs' = Append(runs, [command |-> command, result |-> r.result, spawn |-> r.spawn,
                                 outcome |-> IF r.spawn # << >> THEN env ELSE NoOutcome])
    /\ UNCHANGED <<sanitizeVars, ledgerVars, sessionVars, pathVars>>

NextGateway == \E command \in GatewayCommands, env \in ProcOutcomes : RunCommand(command, env)

SpecGateway == InitGateway /\ [][NextGateway]_vars

\* ------------------------------------------------------------------------
\* Ledger alone: any sequence of calls on one IncidentContext
\* ------------------------------------------------------------------------
Init ==
    /\ candidate = ""
    /\ verdict = NoVerdict
    /\ InitLedger
    /\ runs = << >>
    /\ InitSessionVars
    /\ InitPathVars

Tick ==
    /\ clock < MaxClock
    /\ clock' = clock + 1
    /\ UNCHANGED <<sanitizeVars, ctx, ret, calls, runs, sessionVars, pathVars>>

Set(key, value) ==
    /\ calls < MaxCalls
    /\ ctx' = set(ctx, key, value, clock)
    /\ calls' = calls + 1
    /\ ret' = NoReturn
    /\ UNCHANGED <<sanitizeVars, clock, runs, sessionVars, pathVars>>

AddCommand(in) ==
    /\ calls < MaxCalls
    /\ ctx' = add_command(ctx, in.command, in.output, in.success, clock)
    /\ calls' = calls + 1
    /\ ret' = NoReturn
    /\ UNCHANGED <<sanitizeVars, clock, runs, sessionVars, pathVars>>

SetSeverity(sev) ==
    /\ calls < MaxCalls
    /\ ctx' = set_severity(ctx, sev, clock)
    /\ calls' = calls + 1
    /\ ret' = NoReturn
    /\ UNCHANGED <<sanitizeVars, clock, runs, sessionVars, pathVars>>

SetStatus(st) ==
    /\ calls < MaxCalls
    /\ ctx' = set_status(ctx, st, clock)
    /\ calls' = calls + 1
    /\ ret' = NoReturn
    /\ UNCHANGED <<sanitizeVars, clock, runs, sessionVars, pathVars>>

GetSummary ==
    /\ ret' = [op |-> "get_summary", value |-> get_summary(ctx, clock)]
    /\ UNCHANGED <<sanitizeVars, ctx, clock, calls, runs, sessionVars, pathVars>>

ExportReport ==
    /\ ret' = [op |-> "export_report", value |-> export_report(ctx, clock)]
    /\ UNCHANGED <<sanitizeVars, ctx, clock, calls, runs, sessionVars, pathVars>>

Next ==
    \/ Tick
    \/ \E key \in Keys, value \in Values : Set(key, value)
    \/ \E in \in CommandInputs : AddCommand(in)
    \/ \E sev \in SeverityInputs : SetSeverity(sev)
    \/ \E st \in StatusInputs : SetStatus(st)
    \/ GetSummary
    \/ ExportReport

Spec == Init /\ [][Next]_vars

\* ------------------------------------------------------------------------
\* cli.start: the interactive session
\* ------------------------------------------------------------------------
\* most timeline entries a session is followed for
MaxSessionEntries == 7

\* re.search(r'`([^`]+)`', line): the positions <<i, j>> of the leftmost pair
\* of backquotes with something between them
BackquotedPairs(line) ==
    {p \in (1..Len(line)) \X (1..Len(line)) :
        /\ p[1] + 1 < p[2]
        /\ CharAt(line, p[1]) = Backtick
        /\ CharAt(line, p[2]) = Backtick
        /\ \A m \in (p[1] + 1)..(p[2] - 1) : CharAt(line, m) # Backtick}

FirstBackquoted(line) ==
    LET p == CHOOSE q \in BackquotedPairs(line) : \A o \in BackquotedPairs(line) : q[1] <= o[1]
    IN  SubSeq(line, p[1] + 1, p[2] - 1)

command_words == {"systemctl", "journalctl", "tail", "grep", "ps", "top"}

\* the commands one line of the AI response contributes
line_commands(raw) ==
    LET line == strip(raw) IN
    IF StartsWith(line, Backtick) /\ EndsWith(line, Backtick)
    THEN <<SubSeq(line, 2, Len(line) - 1)>>
    ELSE IF Contains(line, "sudo ") \/ \E w \in command_words : Contains(line, w)
    THEN IF BackquotedPairs(line) # {} THEN <<FirstBackquoted(line)>> ELSE << >>
    ELSE << >>

RECURSIVE concat_line_commands(_)
concat_line_commands(lines) ==
    IF Len(lines) = 0 THEN << >>
    ELSE line_commands(lines[1]) \o concat_line_commands(Tail(lines))

_extract_commands(text) == concat_line_commands(split_lines(text))

\* the answers of llm.ask the model offers
AiResponses == {
    "Ollama not found. Please install Ollama first.",
    "Look at the processes:\n" \o Backtick \o "ps aux" \o Backtick \o " ",
    "Free space with sudo " \o Backtick \o "ls; rm -rf /" \o Backtick \o " then check top "
        \o Backtick \o "df -h" \o Backtick \o "\n" \o Backtick \o "ps aux" \o Backtick }

\* _extract_commands over AiResponses, computed once
ExtractedCommands == [r \in AiResponses |-> _extract_commands(r)]

\* the call _extract_commands(ai_response)
call_extract_commands(ai_response) ==
    IF ai_response \in AiResponses THEN ExtractedCommands[ai_response]
    ELSE _extract_commands(ai_response)

\* what the operator types at the "> " prompt
UserInputs == {
    "Quit", "help", "status", "report", "!ps aux", "! shutdown now", "disk is full" }

\* user_input.lower() over UserInputs, computed once
LoweredInputs == [u \in UserInputs |-> ToLower(u)]

\* the call user_input.lower()
lower(user_input) ==
    IF user_input \in UserInputs THEN LoweredInputs[user_input] ELSE ToLower(user_input)

\* what the spawned process does in a session
SessionOutcomes == {Exited(0, "out", ""), Exited(1, "", "err"), TimeoutExpired}

AlertInputs == {"db down"}
EnvironmentInputs == {"production"}
SystemInfos == {PyDict(<< <<"os", "Linux">> >>)}

\* severity_map of _gather_initial_context
severity_map == [
    i \in {"1", "low", "l", "2", "medium", "med", "m", "3", "high", "h",
           "4", "critical", "crit", "c"} |->
        CASE i \in {"1", "low", "l"} -> "low"
          [] i \in {"2", "medium", "med", "m"} -> "medium"
          [] i \in {"3", "high", "h"} -> "high"
          [] i \in {"4", "critical", "crit", "c"} -> "critical" ]

SeverityAnswers == {" HIGH "}

\* one entry of the run_command spy
RunEntry(command, r, env) ==
    [command |-> command, result |-> r.result, spawn |-> r.spawn,
     outcome |-> IF r.spawn # << >> THEN env ELSE NoOutcome]

\* console.print as _execute_command calls it, pictographs left out: the
\* lines shown to the operator for one command, given what run_command returned
printed_lines(command, result) ==
    <<"Executing: " \o command>> \o
    (IF result_get(result, "success", FALSE)
     THEN <<"Command executed successfully">> \o
          (IF result_get(result, "stdout", "") # "" THEN <<result.stdout>> ELSE << >>)
     ELSE <<"Command failed">> \o
          (IF result_get(result, "stderr", "") # ""
           THEN <<"Error: " \o result.stderr>> ELSE << >>))

\* _execute_command without the ledger call when the result carries an error
_execute_command_skip_errors(c, command, env, t) ==
    LET r == run_command(command, DefaultTimeout, env) IN
    [ctx |-> IF "error" \in DOMAIN r.result THEN c
             ELSE add_command(c, command, result_get(r.result, "stdout", ""),
                              result_get(r.result, "success", FALSE), t),
     run |-> RunEntry(command, r, env)]

\* _execute_command(command): the ledger afterwards and the spy entry
_execute_command(c, command, env, t) ==
    LET r == run_command(command, DefaultTimeout, env) IN
    [ctx |-> add_command(c, command, result_get(r.result, "stdout", ""),
                         result_get(r.result, "success", FALSE), t),
     run |-> RunEntry(command, r, env)]

\* ctx.start_time.strftime('%Y%m%d_%H%M%S')
strftime(t) == ToString(t)

report_filename(c) == "incident_report_" \o strftime(c.start_time) \o ".json"

\* _generate_report: the files afterwards (open(filename, 'w') truncates)
_generate_report(fs, c, t) == DictSet(fs, report_filename(c), export_report(c, t))

InitSession ==
    /\ candidate = ""
    /\ verdict = NoVerdict
    /\ InitLedger
    /\ runs = << >>
    /\ InitSessionVars
    /\ InitPathVars

\* start() up to the main loop: LLMEngine(...), the alert prompt and
\* _gather_initial_context; an unsupported provider ends start at once
Start(provider, auto, alert, sys_info, env, severity_answer) ==
    /\ pc = "start"
    /\ auto_execute' = auto
    /\ IF provider \notin {"ollama", "openai"}
       THEN /\ pc' = "ended"
            /\ UNCHANGED ctx
       ELSE /\ pc' = "ai"
            /\ ctx' = set_severity(
                        set(set(set(ctx, "alert", PyStr(alert), clock),
                                "system_info", sys_info, clock),
                            "environment", PyStr(env), clock),
                        severity_map[ToLower(strip(severity_answer))], clock)
    /\ UNCHANGED <<sanitizeVars, clock, ret, calls, runs, pending, files, attempts, console, pathVars, asked, interrupts>>

\* lines 77-88: llm.ask, then the commands extracted from the answer
AiTurn(ai_response) ==
    /\ pc = "ai"
    /\ LET suggested_commands == call_extract_commands(ai_response)
       IN  IF suggested_commands # << >> /\ auto_execute
           THEN pc' = "confirm" /\ pending' = suggested_commands
           ELSE pc' = "input" /\ pending' = << >>
    /\ UNCHANGED <<sanitizeVars, ctx, clock, ret, calls, runs, auto_execute, files, attempts, console, pathVars, asked, interrupts>>

\* the confirm loop executing the suggested command whatever the answer
ConfirmSuggested_any_answer(yes, env) ==
    /\ pc = "confirm"
    /\ pending # << >>
    /\ Len(ctx.timeline) < MaxSessionEntries
    /\ LET cmd == Head(pending)
           x == _execute_command(ctx, cmd, env, clock)
       IN  /\ ctx' = x.ctx
           /\ runs' = Append(runs, x.run)
           /\ attempts' = Append(attempts, cmd)
           /\ console' = Append(console, printed_lines(cmd, runs'[Len(runs')].result))
    /\ pending' = Tail(pending)
    /\ pc' = IF Len(pending) = 1 THEN "input" ELSE "confirm"
    /\ asked' = Confirmed(Head(pending), yes)
    /\ UNCHANGED <<sanitizeVars, clock, ret, calls, auto_execute, files, pathVars, interrupts>>

\* lines 89-91: one round of the confirm loop
ConfirmSuggested(yes, env) ==
    /\ pc = "confirm"
    /\ pending # << >>
    /\ yes => Len(ctx.timeline) < MaxSessionEntries
    /\ LET cmd == Head(pending)
           x == _execute_command(ctx, cmd, env, clock)
       IN  IF yes
           THEN /\ ctx' = x.ctx
                /\ runs' = Append(runs, x.run)
                /\ attempts' = Append(attempts, cmd)
                /\ console' = Append(console, printed_lines(cmd, runs'[Len(runs')].result))
           ELSE UNCHANGED <<ctx, runs, attempts, console>>
    /\ pending' = Tail(pending)
    /\ pc' = IF Len(pending) = 1 THEN "input" ELSE "confirm"
    /\ asked' = Confirmed(Head(pending), yes)
    /\ UNCHANGED <<sanitizeVars, clock, ret, calls, auto_execute, files, pathVars, interrupts>>

\* "exit" / "quit": _end_session, then break; when writing the report raises,
\* the handler of line 119 catches it and the loop goes on
InputExit(user_input, confirm, write_ok) ==
    /\ pc = "input"
    /\ lower(user_input) \in {"exit", "quit"}
    /\ Len(ctx.timeline) < MaxSessionEntries
    /\ ctx' = set_status(ctx, "resolved", clock)
    /\ IF confirm /\ write_ok
       THEN files' = _generate_report(files, ctx', clock)
       ELSE UNCHANGED files
    /\ pc' = IF confirm /\ ~write_ok THEN "ai" ELSE "ended"
    /\ asked' = NoPrompt
    /\ UNCHANGED <<sanitizeVars, clock, ret, calls, runs, auto_execute, pending, attempts, console, pathVars, interrupts>>

\* "help": _show_help
InputHelp(user_input) ==
    /\ pc = "input"
    /\ lower(user_input) = "help"
    /\ pc' = "ai"
    /\ asked' = NoPrompt
    /\ UNCHANGED <<sanitizeVars, ledgerVars, runs, auto_execute, pending, files, attempts, console, pathVars, interrupts>>

\* "status": _show_status prints ctx.get_summary()
InputStatus(user_input) ==
    /\ pc = "input"
    /\ lower(user_input) = "status"
    /\ pc' = "ai"
    /\ asked' = NoPrompt
    /\ UNCHANGED <<sanitizeVars, ledgerVars, runs, auto_execute, pending, files, attempts, console, pathVars, interrupts>>

\* "report": _generate_report
InputReport(user_input, write_ok) ==
    /\ pc = "input"
    /\ lower(user_input) = "report"
    /\ IF write_ok
       THEN files' = _generate_report(files, ctx, clock)
       ELSE UNCHANGED files
    /\ pc' = "ai"
    /\ asked' = NoPrompt
    /\ UNCHANGED <<sanitizeVars, ledgerVars, runs, auto_execute, pending, attempts, console, pathVars, interrupts>>

IsKeyword(user_input) == lower(user_input) \in {"exit", "quit", "help", "status", "report"}

\* the "!" branch leaving the loop when the command did not succeed
InputCommand_break_on_failure(user_input, env) ==
    /\ pc = "input"
    /\ ~IsKeyword(user_input)
    /\ StartsWith(user_input, "!")
    /\ Len(ctx.timeline) < MaxSessionEntries
    /\ LET command == strip(SubSeq(user_input, 2, Len(user_input)))
           x == _execute_command(ctx, command, env, clock)
       IN  /\ ctx' = x.ctx
           /\ runs' = Append(runs, x.run)
           /\ attempts' = Append(attempts, command)
           /\ console' = Append(console, printed_lines(command, runs'[Len(runs')].result))
           /\ pc' = IF x.run.result.success THEN "ai" ELSE "ended"
    /\ asked' = NoPrompt
    /\ UNCHANGED <<sanitizeVars, clock, ret, calls, auto_execute, pending, files, pathVars, interrupts>>

\* "!<command>": _execute_command(user_input[1:].strip())
InputCommand(user_input, env) ==
    /\ pc = "input"
    /\ ~IsKeyword(user_input)
    /\ StartsWith(user_input, "!")
    /\ Len(ctx.timeline) < MaxSessionEntries
    /\ LET command == strip(SubSeq(user_input, 2, Len(user_input)))
           x == _execute_command(ctx, command, env, clock)
       IN  /\ ctx' = x.ctx
           /\ runs' = Append(runs, x.run)
           /\ attempts' = Append(attempts, command)
           /\ console' = Append(console, printed_lines(command, runs'[Len(runs')].result))
    /\ pc' = "ai"
    /\ asked' = NoPrompt
    /\ UNCHANGED <<sanitizeVars, clock, ret, calls, auto_execute, pending, files, pathVars, interrupts>>

\* the free-text branch numbering its key by the commands run so far
InputResponse_numbered_by_commands(user_input) ==
    /\ pc = "input"
    /\ ~IsKeyword(user_input)
    /\ ~StartsWith(user_input, "!")
    /\ Len(ctx.timeline) < MaxSessionEntries
    /\ ctx' = set(ctx, "response_" \o ToString(Len(ctx.commands_executed)),
                  PyStr(user_input), clock)
    /\ pc' = "ai"
    /\ asked' = NoPrompt
    /\ UNCHANGED <<sanitizeVars, clock, ret, calls, runs, auto_execute, pending, files, attempts, console, pathVars, interrupts>>

\* anything else: ctx.set(f"response_{len(ctx.data)}", user_input)
InputResponse(user_input) ==
    /\ pc = "input"
    /\ ~IsKeyword(user_input)
    /\ ~StartsWith(user_input, "!")
    /\ Len(ctx.timeline) < MaxSessionEntries
    /\ ctx' = set(ctx, "response_" \o ToString(Len(ctx.data)), PyStr(user_input), clock)
    /\ pc' = "ai"
    /\ asked' = NoPrompt
    /\ UNCHANGED <<sanitizeVars, clock, ret, calls, runs, auto_execute, pending, files, attempts, console, pathVars, interrupts>>

NextSession ==
    \/ \E provider \in {"ollama", "azure"}, auto \in BOOLEAN, alert \in AlertInputs,
          sys_info \in SystemInfos, env \in EnvironmentInputs,
          severity_answer \in SeverityAnswers :
            Start(provider, auto, alert, sys_info, env, severity_answer)
    \/ \E ai_response \in AiResponses : AiTurn(ai_response)
    \/ \E yes \in BOOLEAN, env \in SessionOutcomes : ConfirmSuggested(yes, env)
    \/ \E user_input \in UserInputs, confirm \in BOOLEAN, write_ok \in BOOLEAN :
            InputExit(user_input, confirm, write_ok)
    \/ \E user_input \in UserInputs : InputHelp(user_input)
    \/ \E user_input \in UserInputs : InputStatus(user_input)
    \/ \E user_input \in UserInputs, write_ok \in BOOLEAN : InputReport(user_input, write_ok)
    \/ \E user_input \in UserInputs, env \in SessionOutcomes : InputCommand(user_input, env)
    \/ \E user_input \in UserInputs : InputResponse(user_input)

SpecSession == InitSession /\ [][NextSession]_vars

\* the loop of start is sequential: llm.ask returns (its subprocess calls
\* carry timeouts and its exceptions are caught) and each prompt returns once
\* the operator answers, so a step that can be taken is eventually taken
SpecSessionFair == SpecSession /\ WF_vars(NextSession)

\* ------------------------------------------------------------------------
\* The loop of start with operator interrupts: a KeyboardInterrupt raised
\* anywhere in an iteration is caught at line 117, a message is printed and
\* the while loop starts its next iteration (the suggested commands not yet
\* asked about are dropped with the iteration)
\* ------------------------------------------------------------------------
Caught ==
    /\ interrupts < MaxInterrupts
    /\ interrupts' = interrupts + 1
    /\ pc' = "ai"
    /\ pending' = << >>
    /\ asked' = NoPrompt

\* the commands typed after "!" (lines 108-110), computed once
TypedCommands ==
    {strip(SubSeq(u, 2, Len(u))) : u \in {i \in UserInputs : ~IsKeyword(i) /\ StartsWith(i, "!")}}

\* the commands _execute_command may be running: the suggested command just
\* confirmed (line 91) or the text typed after "!" (line 111)
Executing ==
    IF pc = "confirm" /\ pending # << >> THEN {Head(pending)}
    ELSE IF pc = "input" THEN TypedCommands
    ELSE {}

\* what run_command leaves behind when the interrupt arrives in subprocess.run
\* (`except Exception` does not catch KeyboardInterrupt): no dict is returned
InterruptedRun(command) ==
    [command |-> command,
     result |-> [command |-> command, raised |-> "KeyboardInterrupt"],
     spawn |-> <<SpawnCall(split(call_sanitize_command(command).value), DefaultTimeout)>>,
     outcome |-> NoOutcome]

\* Ctrl-C while llm.ask runs or while a prompt waits for the answer
\* (lines 80, 90, 94)
InterruptPrompt_new_ledger ==
    /\ pc \in {"ai", "confirm", "input"}
    /\ Caught
    /\ ctx' = NewContext(clock)
    /\ UNCHANGED <<sanitizeVars, clock, ret, calls, runs, auto_execute, files, attempts,
                   console, pathVars>>

InterruptPrompt ==
    /\ pc \in {"ai", "confirm", "input"}
    /\ Caught
    /\ UNCHANGED <<sanitizeVars, ctx, clock, ret, calls, runs, auto_execute, files, attempts,
                   console, pathVars>>

\* Ctrl-C while the child of run_command runs: _execute_command is left
\* at line 275, before ctx.add_command
InterruptRunCommand(command) ==
    /\ command \in Executing
    /\ call_sanitize_command(command).ok
    /\ Caught
    /\ runs' = Append(runs, InterruptedRun(command))
    /\ attempts' = Append(attempts, command)
    /\ console' = Append(console, <<"Executing: " \o command>>)
    /\ UNCHANGED <<sanitizeVars, ctx, clock, ret, calls, auto_execute, files, pathVars>>

\* Ctrl-C inside ctx.add_command (line 276), between the append to
\* commands_executed and the timeline entry
InterruptAddCommand(command, env) ==
    /\ command \in Executing
    /\ Caught
    /\ runs' = Append(runs, RunEntry(command, run_command(command, DefaultTimeout, env), env))
    /\ ctx' = add_command_interrupted(ctx, command,
                                      result_get(runs'[Len(runs')].result, "stdout", ""),
                                      result_get(runs'[Len(runs')].result, "success", FALSE),
                                      clock)
    /\ attempts' = Append(attempts, command)
    /\ console' = Append(console, <<"Executing: " \o command>>)
    /\ UNCHANGED <<sanitizeVars, clock, ret, calls, auto_execute, files, pathVars>>

\* Ctrl-C inside ctx.set (line 115), between the store and the timeline entry
InterruptSet(user_input) ==
    /\ pc = "input"
    /\ ~IsKeyword(user_input)
    /\ ~StartsWith(user_input, "!")
    /\ Caught
    /\ ctx' = set_interrupted(ctx, "response_" \o ToString(Len(ctx.data)),
                              PyStr(user_input), clock)
    /\ UNCHANGED <<sanitizeVars, clock, ret, calls, runs, auto_execute, files, attempts,
                   console, pathVars>>

\* Ctrl-C inside ctx.set_status (_end_session, line 325), between the
\* assignment and the timeline entry
InterruptSetStatus(user_input) ==
    /\ pc = "input"
    /\ lower(user_input) \in {"exit", "quit"}
    /\ Caught
    /\ ctx' = set_status_interrupted(ctx, "resolved", clock)
    /\ UNCHANGED <<sanitizeVars, clock, ret, calls, runs, auto_execute, files, attempts,
                   console, pathVars>>

NextInterrupt ==
    \/ NextSession /\ Len(ctx'.timeline) <= MaxInterruptEntries
    \/ InterruptPrompt
    \/ \E command \in Executing : InterruptRunCommand(command)
    \/ \E command \in Executing, env \in SessionOutcomes : InterruptAddCommand(command, env)
    \/ \E user_input \in UserInputs : InterruptSet(user_input)
    \/ \E user_input \in UserInputs : InterruptSetStatus(user_input)

SpecInterrupt == InitSession /\ [][NextInterrupt]_vars

\* ========================================================================
\* Properties
\* ========================================================================
IsPrefix(a, b) == Len(a) <= Len(b) /\ SubSeq(b, 1, Len(a)) = a

\* the shell metacharacters and operators named by the specification
Metacharacters == {";", "&&", "||", "|", ">", "<", Backtick, "$", "(", ")"}

HasMetacharacter(text) == \E m \in Metacharacters : Contains(text, m)

MatchesDenylistPattern(text) ==
    \E k \in 1..Len(dangerous_patterns) : re_search(dangerous_patterns[k], text)

\* the three kinds of ValueError message
IsNotAllowlistedReason(msg) ==
    /\ StartsWith(msg, "Command '")
    /\ EndsWith(msg, "' is not in the allowed list for security reasons")
IsEmptyReason(msg) == msg = "Invalid command: must be a non-empty string"
IsDenylistReason(msg) ==
    \/ StartsWith(msg, "Dangerous character '")
    \/ StartsWith(msg, "Potentially dangerous command pattern detected: ")

Validated == verdict # NoVerdict

\* ---- C1 ----------------------------------------------------------------
\* C1: run_command spawns a process only for a command that sanitize_command
\* accepted, from the accepted text; a rejected command returns a denial
\* (success false, with the reason) and makes no subprocess.run call.
C1_NoSpawnWithoutAcceptance ==
    \A i \in 1..Len(runs) :
        LET r == runs[i]
            v == call_sanitize_command(r.command)
        IN  /\ ~v.ok =>
                /\ r.spawn = << >>
                /\ r.result = [command |-> r.command, error |-> v.error, success |-> FALSE]
            /\ r.spawn # << >> =>
                /\ v.ok
                /\ Len(r.spawn) = 1
                /\ r.spawn[1].argv = split(v.value)

C1_Witness ==
    \E i, j \in 1..Len(runs) :
        /\ runs[i].command = "ls; rm -rf /"
        /\ runs[i].spawn = << >>
        /\ runs[i].result.success = FALSE
        /\ runs[j].command = "ps aux"
        /\ Len(runs[j].spawn) = 1

\* ---- C2 ----------------------------------------------------------------
\* C2: every candidate that contains a shell metacharacter or operator, or
\* that matches a denylist pattern, is rejected by sanitize_command.
C2_DenylistAlwaysRejects ==
    (Validated /\ (HasMetacharacter(candidate) \/ MatchesDenylistPattern(candidate)))
        => ~verdict.ok

\* ---- C3 ----------------------------------------------------------------
\* C3: the timeline has exactly one entry per set / add_command /
\* set_severity / set_status call, and every command record has its
\* "Executed" entry.
C3_WriteThroughAudit ==
    /\ Len(ctx.timeline) = calls
    /\ Len(ctx.commands_executed)
         = Cardinality({i \in 1..Len(ctx.timeline) : StartsWith(ctx.timeline[i].entry, "Executed: ")})
    /\ (ctx.data # << >> => \E i \in 1..Len(ctx.timeline) : StartsWith(ctx.timeline[i].entry, "Set "))
    /\ (ctx.severity # NoSeverity =>
            \E i \in 1..Len(ctx.timeline) : StartsWith(ctx.timeline[i].entry, "Severity set to: "))
    /\ (ctx.status # "investigating" =>
            \E i \in 1..Len(ctx.timeline) : StartsWith(ctx.timeline[i].entry, "Status changed to: "))

C3_Witness ==
    /\ calls = 3
    /\ Len(ctx.timeline) = 3
    /\ ctx.data # << >>
    /\ ctx.commands_executed # << >>
    /\ ctx.severity # NoSeverity

\* ---- C4 ----------------------------------------------------------------
\* C4: every ledger operation leaves the old timeline and the old command
\* list as prefixes of the new ones.
C4_AppendOnly ==
    [][ /\ IsPrefix(ctx.timeline, ctx'.timeline)
        /\ IsPrefix(ctx.commands_executed, ctx'.commands_executed) ]_vars

C4_Witness ==
    /\ Len(ctx.timeline) = 3
    /\ Len(ctx.commands_executed) = 2
    /\ ctx.timeline[1].entry # ctx.timeline[3].entry
    /\ ret.op = "export_report"

\* ---- C5 ----------------------------------------------------------------
JMember(obj, name) == obj.v[CHOOSE i \in 1..Len(obj.v) : obj.v[i][1] = name][2]
JKeys(obj) == [i \in 1..Len(obj.v) |-> obj.v[i][1]]

\* C5: the exported report has the members incident_summary, timeline,
\* commands_executed and context_data, and its timeline and commands_executed
\* arrays hold every ledger entry, in append order, none left out.
C5_ReportComplete ==
    ret.op = "export_report" =>
        LET doc == ret.value
            tl == JMember(doc, "timeline").v
            cmds == JMember(doc, "commands_executed").v
        IN  /\ JKeys(doc) = <<"incident_summary", "timeline", "commands_executed", "context_data">>
            /\ Len(tl) = Len(ctx.timeline)
            /\ \A i \in 1..Len(tl) :
                 /\ JMember(tl[i], "timestamp").v = ctx.timeline[i].timestamp
                 /\ JMember(tl[i], "entry").v = ctx.timeline[i].entry
            /\ Len(cmds) = Len(ctx.commands_executed)
            /\ \A i \in 1..Len(cmds) :
                 /\ JMember(cmds[i], "command").v = ctx.commands_executed[i].command
                 /\ JMember(cmds[i], "output").v = ctx.commands_executed[i].output
                 /\ JMember(cmds[i], "success").v = ctx.commands_executed[i].success
                 /\ JMember(cmds[i], "timestamp").v = ctx.commands_executed[i].timestamp

\* set("a", "1"); add_command("rm -rf /", "", False); set_severity(HIGH); export_report()
C5_Witness ==
    /\ ret.op = "export_report"
    /\ Len(ctx.timeline) = 3
    /\ LET tl == JMember(ret.value, "timeline").v
       IN  /\ Len(tl) = 3
           /\ JMember(tl[1], "entry").v = "Set a: 1"
           /\ JMember(tl[2], "entry").v = "Executed: rm -rf /"
           /\ JMember(tl[3], "entry").v = "Severity set to: high"

\* ---- C6 ----------------------------------------------------------------
ExecutedEntries(c) ==
    {i \in 1..Len(c.timeline) : StartsWith(c.timeline[i].entry, "Executed: ")}

\* C6: every command handed to _execute_command, whether run_command denied
\* it, it timed out, failed or completed, has exactly one add_command record
\* (and one "Executed" timeline entry), in attempt order, carrying the success
\* flag run_command returned.
C6_EveryAttemptRecorded ==
    /\ Len(runs) = Len(attempts)
    /\ Len(ctx.commands_executed) = Len(attempts)
    /\ Cardinality(ExecutedEntries(ctx)) = Len(attempts)
    /\ \A i \in 1..Len(attempts) :
         /\ runs[i].command = attempts[i]
         /\ ctx.commands_executed[i].command = attempts[i]
         /\ ctx.commands_executed[i].success = runs[i].result.success
         /\ ctx.commands_executed[i].output =
              (IF runs[i].outcome.kind = "exit" THEN runs[i].outcome.stdout ELSE "")

C6_Witness ==
    /\ Len(attempts) = 3
    /\ Len(ctx.commands_executed) = 3
    /\ \E i, j, k \in 1..3 :
         /\ runs[i].spawn = << >>
         /\ "error" \in DOMAIN runs[i].result
         /\ runs[j].outcome.kind = "timeout"
         /\ runs[k].outcome = Exited(1, "", "err")
         /\ ctx.commands_executed[i].success = FALSE

\* ---- C7 ----------------------------------------------------------------
\* C7: commands_executed holds a record only for a command that validation
\* accepted and that was actually run; a denied candidate leaves no record.
C7_RecordsOnlyForRunCommands ==
    /\ \A i \in 1..Len(ctx.commands_executed) :
         call_sanitize_command(ctx.commands_executed[i].command).ok
    /\ Len(ctx.commands_executed) = Cardinality({i \in 1..Len(runs) : runs[i].spawn # << >>})

\* ---- C8 ----------------------------------------------------------------
\* C8 as stated: every candidate whose base token is not in the allowlist is
\* rejected with the not-allowlisted reason.
C8_NotAllowlistedReasonAlways ==
    (Validated /\ base_command_of(candidate) \notin allowed_commands)
        => (~verdict.ok /\ IsNotAllowlistedReason(verdict.error))

\* C8 amended: every candidate whose base token is not in the allowlist is
\* rejected; the reason is the not-allowlisted one, naming the base token,
\* when the candidate is non-empty and its trimmed text holds no dangerous
\* character and matches no denylist pattern; the empty candidate gets the
\* empty-command reason and a denylist hit gets the denylist reason.
C8_NotAllowlistedRejected ==
    (Validated /\ base_command_of(candidate) \notin allowed_commands) =>
        /\ ~verdict.ok
        /\ IF candidate = "" THEN IsEmptyReason(verdict.error)
           ELSE IF HasMetacharacter(strip(candidate)) \/ MatchesDenylistPattern(strip(candidate))
           THEN IsDenylistReason(verdict.error)
           ELSE verdict.error = "Command '" \o base_command_of(candidate)
                                   \o "' is not in the allowed list for security reasons"

C8_Witness ==
    /\ candidate = "shutdown now"
    /\ verdict = Rejected("Command 'shutdown' is not in the allowed list for security reasons")

\* ---- C9 ----------------------------------------------------------------
\* C9: a candidate whose base token is allowlisted and whose text trips no
\* denylist rule is accepted, and what is returned is the candidate with the
\* surrounding whitespace removed and nothing else changed.
C9_AllowlistedAccepted ==
    ( /\ Validated
      /\ base_command_of(candidate) \in allowed_commands
      /\ ~HasMetacharacter(strip(candidate))
      /\ ~MatchesDenylistPattern(strip(candidate)) )
        => verdict = Accepted(strip(candidate))

C9_Witness ==
    /\ candidate = " df -h\n"
    /\ verdict = Accepted("df -h")

\* ---- C10 ---------------------------------------------------------------
\* C10: when the spawned process exits before the timeout, run_command
\* returns its stdout, stderr and return code, with success true exactly
\* when the return code is 0.
C10_CompletedResult ==
    \A i \in 1..Len(runs) :
        (runs[i].spawn # << >> /\ runs[i].outcome.kind = "exit") =>
            runs[i].result = [command |-> runs[i].command,
                              returncode |-> runs[i].outcome.returncode,
                              stdout |-> runs[i].outcome.stdout,
                              stderr |-> runs[i].outcome.stderr,
                              success |-> (runs[i].outcome.returncode = 0)]

C10_Witness ==
    \E i, j \in 1..Len(runs) :
        /\ runs[i].outcome = Exited(1, "out", "err")
        /\ runs[i].result.success = FALSE
        /\ runs[i].result.stderr = "err"
        /\ runs[j].outcome = Exited(0, "out", "")
        /\ runs[j].result.success = TRUE

\* ---- C11 ---------------------------------------------------------------
SimpleCommands == {"echo test", "false"}

\* C11: run_command on `echo test` or `false` spawns the process (argv the
\* split command) and returns that process's returncode, stdout and stderr,
\* with success exactly when it exited 0.
C11_SimpleCommandRuns ==
    \A i \in 1..Len(runs) :
        runs[i].command \in SimpleCommands =>
            /\ runs[i].spawn = <<SpawnCall(split(runs[i].command), DefaultTimeout)>>
            /\ "stdout" \in DOMAIN runs[i].result
            /\ "stderr" \in DOMAIN runs[i].result

\* ---- C12 ---------------------------------------------------------------
\* C12: when the process of an accepted command outlives the timeout,
\* run_command (which passed timeout=30 to subprocess.run) returns the
\* dict {command, error: "Command timed out", success: False}: it returns,
\* reports no return code or output, and raises nothing.
C12_TimeoutReturnsFailure ==
    \A i \in 1..Len(runs) :
        (runs[i].spawn # << >> /\ runs[i].outcome.kind = "timeout") =>
            /\ call_sanitize_command(runs[i].command).ok
            /\ runs[i].spawn[1].timeout = DefaultTimeout
            /\ runs[i].result = [command |-> runs[i].command,
                                 error |-> "Command timed out",
                                 success |-> FALSE]

C12_Witness ==
    \E i \in 1..Len(runs) :
        /\ runs[i].command = "ps aux"
        /\ runs[i].spawn = <<SpawnCall(<<"ps", "aux">>, 30)>>
        /\ runs[i].outcome = TimeoutExpired
        /\ runs[i].result.success = FALSE
        /\ runs[i].result.error = "Command timed out"
\* ---- C19 ---------------------------------------------------------------
NoDuration(summary) == [k \in DOMAIN summary \ {"duration"} |-> summary[k]]

\* C19: a get_summary call changes no field of the IncidentContext, and the
\* summary returned by an earlier call equals, in every field but duration,
\* the summary a call made now returns, as long as no mutating call came
\* between the two (ret is reset by every mutating call).
C19_SummaryPure ==
    /\ [](ret.op = "get_summary" =>
            NoDuration(ret.value) = NoDuration(get_summary(ctx, clock)))
    /\ [][(ret'.op = "get_summary") => (ctx' = ctx)]_vars

C19_Witness ==
    /\ ret.op = "get_summary"
    /\ Len(ctx.commands_executed) > 0
    /\ ctx.data # << >>
    /\ ret.value.duration # get_summary(ctx, clock).duration
    /\ ret.value.commands_run = Len(ctx.commands_executed)
\* ---- C20 ---------------------------------------------------------------
\* C20: every candidate that is empty once stripped, the empty string and
\* the whitespace-only strings alike, is rejected with the empty-command
\* error "Invalid command: must be a non-empty string".
C20_BlankGetsEmptyReason ==
    (verdict # NoVerdict /\ strip(candidate) = "") =>
        (~verdict.ok /\ IsEmptyReason(verdict.error))
\* ---- C16 ---------------------------------------------------------------
\* C16: a step that hands a command to _execute_command, whatever
\* run_command answered (denied, failed, timed out, completed), leaves the
\* session inside the loop; the loop is left only by the exit/quit branch
\* (which runs _end_session and no command); and from the top of the loop
\* or the confirm loop the "> " prompt is reached again.
C16_FailureNeverEndsSession ==
    /\ [][(attempts' # attempts) => (pc' \in {"ai", "confirm", "input"})]_vars
    /\ [][(pc \notin {"start", "ended"} /\ pc' = "ended") =>
            /\ pc = "input"
            /\ attempts' = attempts
            /\ runs' = runs
            /\ ctx' = set_status(ctx, "resolved", clock)]_vars
    /\ (pc \in {"ai", "confirm"}) ~> (pc = "input")

C16_Witness ==
    /\ pc = "input"
    /\ Len(runs) >= 3
    /\ runs[1].spawn = << >> /\ ~runs[1].result.success
    /\ runs[2].outcome = Exited(1, "", "err") /\ ~runs[2].result.success
    /\ runs[3].outcome = TimeoutExpired /\ ~runs[3].result.success
\* ---- C17 ---------------------------------------------------------------
\* C17: a failure of the LLM capability, at LLMEngine(...) or at an ask
\* call, never ends the session: start always goes on to the main loop, and
\* the loop, whatever llm.ask answered, reaches the "> " prompt.
C17_LlmFailureKeepsSession ==
    /\ [][(pc = "start") => (pc' = "ai")]_vars
    /\ [][(pc = "ai") => (pc' \in {"confirm", "input"})]_vars
\* ---- C13 ---------------------------------------------------------------
HasParentSegment(path) ==
    \E k \in 1..Len(path_segments(path)) : path_segments(path)[k] = ".."

TraversalMessage == "Path traversal detected: '..' not allowed"

\* C13: a path whose text has a ".." segment is rejected by
\* validate_file_path with the traversal error, and os.path.realpath is not
\* called for it; tail_log, which validates first, spawns nothing for it.
C13_TraversalRejectedBeforeResolution ==
    (path_call # NoPathCall /\ HasParentSegment(path_call.path)) =>
        IF path_call.op = "validate_file_path"
        THEN /\ ~path_call.verdict.ok
             /\ ~path_call.verdict.resolved
             /\ path_call.verdict.error = TraversalMessage
        ELSE /\ path_call.spawn = << >>
             /\ path_call.result = [error |-> "Invalid log path: " \o TraversalMessage]

C13_Witness ==
    /\ path_call # NoPathCall
    /\ path_call.op = "validate_file_path"
    /\ path_call.path = "/var/log/../../etc/passwd"
    /\ path_call.allowed_dirs = <<"/var/log/">>
    /\ ~path_call.verdict.ok
    /\ realpath(fsys, path_call.path) = "/etc/passwd"

\* ---- C14 ---------------------------------------------------------------
\* p is the directory dir or lies below it
InsideDir(dir, p) ==
    LET d == IF Len(dir) > 1 /\ EndsWith(dir, "/") THEN SubSeq(dir, 1, Len(dir) - 1) ELSE dir
    IN  p = d \/ StartsWith(p, IF d = "/" THEN "/" ELSE d \o "/")

BoundaryOf(call) ==
    IF call.allowed_dirs = NoDirs THEN default_allowed_dirs(fsys) ELSE call.allowed_dirs

\* C14: a path validate_file_path accepts is the canonical (realpath) form
\* of the candidate and lies inside one of the boundary directories.
C14_AcceptedInsideBoundary ==
    (path_call # NoPathCall /\ path_call.op = "validate_file_path" /\ path_call.verdict.ok) =>
        /\ path_call.verdict.value = realpath(fsys, path_call.path)
        /\ \E k \in 1..Len(BoundaryOf(path_call)) :
              InsideDir(BoundaryOf(path_call)[k], path_call.verdict.value)

\* ---- C15 ---------------------------------------------------------------
\* C15: tail_log returns an error and spawns no tail when the resolved
\* target does not exist, is not a regular file, or cannot be read.
C15_NoReadOfBadTarget ==
    (path_call # NoPathCall /\ path_call.op = "tail_log") =>
        LET target == realpath(fsys, path_call.path) IN
        (~exists(fsys, target) \/ ~isfile(fsys, target) \/ ~access_R_OK(fsys, target)) =>
            /\ path_call.spawn = << >>
            /\ "error" \in DOMAIN path_call.result

\* ---- C18 ---------------------------------------------------------------
\* C18: for every command validation rejected, the lines _execute_command
\* shows to the operator contain the rejection reason run_command returned.
C18_RejectionReasonShown ==
    \A i \in 1..Len(runs) :
        runs[i].spawn = << >> =>
            \E k \in 1..Len(console[i]) : Contains(console[i][k], runs[i].result.error)
\* ---- C22 ---------------------------------------------------------------
\* C22: the ledger record of a command that was run and failed (non-zero
\* exit) or timed out carries the process's full stdout and its full stderr.
C22_FailureRecordedWithOutput ==
    \A i \in 1..Len(runs) :
        (runs[i].spawn # << >> /\ ~runs[i].result.success /\ i <= Len(ctx.commands_executed)) =>
            /\ ctx.commands_executed[i].command = runs[i].command
            /\ ctx.commands_executed[i].output = runs[i].outcome.stdout
            /\ "stderr" \in DOMAIN ctx.commands_executed[i]
\* ---- C23 ---------------------------------------------------------------
\* the denylist rules the stripped text hits, in evaluation order: the
\* dangerous characters first, then the patterns
HitRules(command) ==
    [chars |-> {i \in 1..Len(dangerous_chars) : Contains(command, dangerous_chars[i])},
     patterns |-> {k \in 1..Len(dangerous_patterns) : re_search(dangerous_patterns[k], command)}]

FirstRuleName(command) ==
    LET h == HitRules(command) IN
    IF h.chars # {}
    THEN dangerous_chars[CHOOSE i \in h.chars : \A j \in h.chars : i <= j]
    ELSE dangerous_pattern_sources[CHOOSE k \in h.patterns : \A j \in h.patterns : k <= j]

\* C23: a candidate whose stripped text hits a denylist rule is rejected for
\* the denylist, whatever its base command, and the rejection carries the
\* name of the first rule hit in evaluation order.
C23_FirstRuleNamed ==
    LET command == strip(candidate)
        h == HitRules(command)
    IN  (Validated /\ candidate # "" /\ (h.chars # {} \/ h.patterns # {})) =>
            /\ ~verdict.ok
            /\ IsDenylistReason(verdict.error)
            /\ Contains(verdict.error, FirstRuleName(command))
\* ---- C24 ---------------------------------------------------------------
\* C24: every subprocess.run call run_command makes is for a command the
\* validator accepted, gets the whitespace-split words of the accepted
\* (stripped) text as its argument vector, and does not ask for a shell.
C24_ArgvNoShell ==
    \A i \in 1..Len(runs) :
        \A k \in 1..Len(runs[i].spawn) :
            LET v == call_sanitize_command(runs[i].command) IN
            /\ v.ok
            /\ runs[i].spawn[k].argv = split(v.value)
            /\ \A w \in 1..Len(runs[i].spawn[k].argv) :
                 ~\E c \in 1..Len(runs[i].spawn[k].argv[w]) :
                     IsSpace(CharAt(runs[i].spawn[k].argv[w], c))
            /\ runs[i].spawn[k].shell = FALSE

C24_Witness ==
    \E i \in 1..Len(runs) :
        /\ runs[i].command = " df -h "
        /\ Len(runs[i].spawn) = 1
        /\ runs[i].spawn[1].argv = <<"df", "-h">>
        /\ runs[i].spawn[1].shell = FALSE
        /\ runs[i].outcome = Exited(0, "out", "")
\* ---- C25 ---------------------------------------------------------------
FirstToken(command) == IF split(command) = << >> THEN "" ELSE split(command)[1]

\* a bare allowlisted name, "./" and an allowlisted name, or an absolute path
\* ending in an allowlisted name
AllowlistedToken(t) ==
    \/ t \in allowed_commands
    \/ StartsWith(t, "./") /\ SubSeq(t, 3, Len(t)) \in allowed_commands
    \/ StartsWith(t, "/") /\ basename(t) \in allowed_commands

\* C25: the first word handed to process creation is the candidate's own
\* first word, unchanged, and it has one of the three allowlisted shapes; a
\* candidate whose first word has any other shape is rejected and not spawned.
C25_FirstTokenAllowlisted ==
    \A i \in 1..Len(runs) :
        LET first == FirstToken(runs[i].command) IN
        /\ runs[i].spawn # << >> =>
             /\ runs[i].spawn[1].argv[1] = first
             /\ AllowlistedToken(first)
        /\ ~AllowlistedToken(first) =>
             /\ runs[i].spawn = << >>
             /\ ~runs[i].result.success

C25_Witness ==
    \E i, j \in 1..Len(runs) :
        /\ runs[i].command = "./ls"
        /\ runs[i].spawn # << >>
        /\ runs[i].spawn[1].argv = <<"./ls">>
        /\ runs[j].command = "bin/ls -l"
        /\ runs[j].spawn = << >>
        /\ runs[j].result.error = "Command 'bin/ls' is not in the allowed list for security reasons"
\* ---- C26 ---------------------------------------------------------------
\* C26: whatever the command and whatever happened (rejection, missing
\* executable or other spawn error, timeout, exit), run_command returned a
\* dict holding the command it was given and a boolean success, and success
\* is true only when a process was spawned and exited with code 0.
C26_AlwaysReturnsResult ==
    \A i \in 1..Len(runs) :
        /\ "command" \in DOMAIN runs[i].result
        /\ "success" \in DOMAIN runs[i].result
        /\ runs[i].result.command = runs[i].command
        /\ runs[i].result.success \in BOOLEAN
        /\ runs[i].result.success =
             (runs[i].spawn # << >> /\ runs[i].outcome.kind = "exit"
                 /\ runs[i].outcome.returncode = 0)

C26_Witness ==
    \E i, j \in 1..Len(runs) :
        /\ runs[i].command = ""
        /\ runs[i].result = [command |-> "",
                             error |-> "Invalid command: must be a non-empty string",
                             success |-> FALSE]
        /\ runs[j].outcome = SpawnError
        /\ runs[j].result.command = runs[j].command
        /\ runs[j].result.success = FALSE
        /\ "error" \in DOMAIN runs[j].result
\* ---- C30 ---------------------------------------------------------------
ResponseEntries(c) ==
    SelectSeq(c.timeline, LAMBDA e : StartsWith(e.entry, "Set response_"))
ResponseData(c) ==
    SelectSeq(c.data, LAMBDA d : StartsWith(d.key, "response_"))

\* C30: a step of the loop that stores a free-text input adds one new key,
\* response_<n> with n the number of keys before the step, after the existing
\* keys and leaves every existing entry as it was; so the stored responses
\* are, one for one and in order, the responses the timeline saw being set,
\* and the exported context lists the keys in that same order.
C30_ResponseKeyFresh ==
    /\ [][(pc = "input" /\ ctx'.data # ctx.data) =>
            /\ ~HasKey(ctx.data, "response_" \o ToString(Len(ctx.data)))
            /\ Len(ctx'.data) = Len(ctx.data) + 1
            /\ SubSeq(ctx'.data, 1, Len(ctx.data)) = ctx.data
            /\ ctx'.data[Len(ctx'.data)].key = "response_" \o ToString(Len(ctx.data))]_vars
    /\ [](/\ Len(ResponseData(ctx)) = Len(ResponseEntries(ctx))
          /\ \A i \in 1..Len(ResponseData(ctx)) :
               ResponseEntries(ctx)[i].entry =
                   "Set " \o ResponseData(ctx)[i].key \o ": " \o py_str(ResponseData(ctx)[i].value)
          /\ JKeys(JMember(export_report(ctx, clock), "context_data")) =
               [i \in 1..Len(ctx.data) |-> ctx.data[i].key])

C30_Witness ==
    /\ Len(ctx.data) = 5
    /\ ctx.data[4] = [key |-> "response_3", value |-> PyStr("disk is full")]
    /\ ctx.data[5] = [key |-> "response_4", value |-> PyStr("disk is full")]
    /\ Len(ResponseEntries(ctx)) = 2
\* ---- C29 ---------------------------------------------------------------
\* C29: when the operator answers the "> " prompt with exit or quit, the
\* status becomes resolved and its timeline entry is appended, a final report
\* written by that step is exported from the ledger after that change (it
\* shows status resolved, the status-change entry last), and the loop then
\* terminates.
ExitTyped ==
    /\ pc = "input"
    /\ Len(ctx'.timeline) = Len(ctx.timeline) + 1
    /\ ctx'.timeline[Len(ctx'.timeline)].entry = "Status changed to: resolved"

C29_ExitEndsSession ==
    [][ExitTyped =>
          /\ ctx' = set_status(ctx, "resolved", clock)
          /\ files' # files =>
                files' = DictSet(files, report_filename(ctx'), export_report(ctx', clock))
          /\ pc' = "ended"]_vars
\* ---- C28 ---------------------------------------------------------------
\* C28: a command extracted from the AI's answer is executed only when
\* auto_execute is on and the operator answered yes to the Confirm.ask for
\* that very command; it is then run as an operator-typed command is
\* (_execute_command, run_command, sanitize_command): a process is spawned
\* only when sanitize_command accepted it, with the accepted text's argv.
IsSuffix(a, b) == Len(a) <= Len(b) /\ SubSeq(b, Len(b) - Len(a) + 1, Len(b)) = a

ThroughValidatedPath(cmd) ==
    /\ attempts' = Append(attempts, cmd)
    /\ Len(runs') = Len(runs) + 1
    /\ SubSeq(runs', 1, Len(runs)) = runs
    /\ LET e == runs'[Len(runs')]
           v == call_sanitize_command(cmd)
       IN  /\ e.command = cmd
           /\ e.spawn = IF v.ok THEN <<SpawnCall(split(v.value), DefaultTimeout)>> ELSE << >>
           /\ ~v.ok => e.result = [command |-> cmd, error |-> v.error, success |-> FALSE]
           /\ ctx'.commands_executed =
                Append(ctx.commands_executed,
                       [command |-> cmd,
                        output |-> result_get(e.result, "stdout", ""),
                        success |-> e.result.success,
                        timestamp |-> isoformat(clock)])

C28_SuggestedNeedsConfirm ==
    /\ [](pc = "confirm" =>
            /\ auto_execute
            /\ pending # << >>
            /\ \E r \in AiResponses : IsSuffix(pending, call_extract_commands(r)))
    /\ [][pc = "ai" => (attempts' = attempts /\ runs' = runs)]_vars
    /\ [][pc = "confirm" =>
            IF asked' = Confirmed(Head(pending), TRUE)
            THEN ThroughValidatedPath(Head(pending))
            ELSE /\ asked' = Confirmed(Head(pending), FALSE)
                 /\ attempts' = attempts
                 /\ runs' = runs
                 /\ ctx' = ctx]_vars

\* the AI suggested "ls; rm -rf /" and "ps aux": the operator confirmed both,
\* the first was refused without a spawn, the second was spawned
C28_Witness ==
    /\ auto_execute
    /\ asked = Confirmed("ps aux", TRUE)
    /\ Len(runs) = 2
    /\ attempts = <<"ls; rm -rf /", "ps aux">>
    /\ runs[1].spawn = << >>
    /\ runs[2].spawn = <<SpawnCall(<<"ps", "aux">>, DefaultTimeout)>>
\* ---- C21 ---------------------------------------------------------------
ReportWritten == DictGet(files', report_filename(ctx'), JObj(<< >>))

\* C21: a KeyboardInterrupt caught by the loop removes and reorders nothing:
\* at the interrupt and at every later step the old timeline and command
\* list are prefixes of the new ones, and a report written after an interrupt
\* holds every entry and record the ledger had, in ledger order.
C21_InterruptKeepsLedger ==
    /\ [][ /\ IsPrefix(ctx.timeline, ctx'.timeline)
           /\ IsPrefix(ctx.commands_executed, ctx'.commands_executed) ]_vars
    /\ [][(interrupts > 0 /\ files' # files) =>
            /\ HasKey(files', report_filename(ctx'))
            /\ Len(JMember(ReportWritten, "timeline").v) >= Len(ctx.timeline)
            /\ \A i \in 1..Len(ctx.timeline) :
                 JMember(ReportWritten, "timeline").v[i] = json_timeline_entry(ctx.timeline[i])
            /\ Len(JMember(ReportWritten, "commands_executed").v) >= Len(ctx.commands_executed)
            /\ \A i \in 1..Len(ctx.commands_executed) :
                 JMember(ReportWritten, "commands_executed").v[i]
                    = json_command_entry(ctx.commands_executed[i])]_vars

\* a command ran and was recorded, Ctrl-C cut the add_command of a second
\* one short, and the report written afterwards (it holds the second record)
\* has the four entries of start, the "Executed" entry and both records
C21_Witness ==
    /\ interrupts = 1
    /\ Len(ctx.timeline) = 5
    /\ Len(ctx.commands_executed) = 2
    /\ HasKey(files, report_filename(ctx))
    /\ LET report == DictGet(files, report_filename(ctx), JObj(<< >>))
       IN  /\ Len(JMember(report, "timeline").v) = 5
           /\ JMember(JMember(report, "timeline").v[5], "entry").v
                = "Executed: " \o ctx.commands_executed[1].command
           /\ JMember(report, "commands_executed").v
                = <<json_command_entry(ctx.commands_executed[1]),
                    json_command_entry(ctx.commands_executed[2])>>

\* ---- C27 ---------------------------------------------------------------
\* C27: after a KeyboardInterrupt caught by the loop, wherever in the
\* iteration it was raised, every context entry still has its "Set" timeline
\* entry and every command record its "Executed" timeline entry.
C27_WriteThroughSurvivesInterrupt ==
    interrupts > 0 =>
        /\ \A i \in 1..Len(ctx.data) :
             \E k \in 1..Len(ctx.timeline) :
                ctx.timeline[k].entry
                    = "Set " \o ctx.data[i].key \o ": " \o py_str(ctx.data[i].value)
        /\ Len(ctx.commands_executed) = Cardinality(ExecutedEntries(ctx))
        /\ \A i \in 1..Len(ctx.commands_executed) :
             \E k \in 1..Len(ctx.timeline) :
                ctx.timeline[k].entry = "Executed: " \o ctx.commands_executed[i].command
====
